---- MODULE Spec2Model ----
(***************************************************************************)
(* A model of the StRingBuffer of runjak/grim: a ring buffer of strings    *)
(* (src/stRingBuffer/stRingBuffer.go) together with the call sequences of  *)
(* its test file (src/unnamed/part_000).                                   *)
(*                                                                         *)
(* A buffer is the record [start, end, lines, length, panic]: the four     *)
(* fields of the Go struct plus the flag "this call raised a runtime       *)
(* panic".  lines is a function on 0 .. len-1, as a Go slice is.           *)
(***************************************************************************)
EXTENDS Integers, Sequences, FiniteSets, TLC

\* ------------------------------------------------------------------ bounds
\* Largest size handed to NewStRingBuffer.
MaxCap == 3

\* The strings the callers push.
Values == {"a", "b"}

\* The functions handed to Map and MapR: the identity and strings.ToUpper.
Funcs == {"id", "upper"}

\* Push and Unshift take up to one value more than the buffer holds.
RECURSIVE SeqsUpTo(_)
SeqsUpTo(n) ==
  IF n = 0 THEN {<<>>}
  ELSE LET shorter == SeqsUpTo(n - 1)
       IN  shorter \cup {Append(q, v) : q \in {r \in shorter : Len(r) = n - 1}, v \in Values}

\* All argument lists of Push and Unshift.
AllArgs == SeqsUpTo(MaxCap + 1)

Args(n) == {ls \in AllArgs : Len(ls) <= n}

VARIABLES start, end, lines, length, panicked, last, sc, locals

vars == <<start, end, lines, length, panicked, last, sc, locals>>

\* ------------------------------------------------------- the Go functions
\* The receiver s of a method call.
Self ==
  [start |-> start, end |-> end, lines |-> lines, length |-> length, panic |-> panicked]

NewStRingBuffer(size) ==
  [start |-> 0, end |-> 0, lines |-> [i \in 0 .. size - 1 |-> ""], length |-> 0, panic |-> FALSE]

Capacity(s) == Cardinality(DOMAIN s.lines)

Full(s) == s.length = Capacity(s)

Empty(s) == s.length = 0

Length(s) == s.length

\* (x + l) % l with l == 0 is Go's "integer divide by zero" runtime panic.
modPanics(s) == Capacity(s) = 0

mod(s, x) == (x + Capacity(s)) % Capacity(s)

\* An index expression s.lines[i] outside the slice is a runtime panic too.
InRange(s, i) == i \in DOMAIN s.lines

Panic(s) == [s EXCEPT !.panic = TRUE]

\* Push as it would be without the s.Full() branch: it grows always.
PushLineNoEvict(s, line) ==
  IF s.panic \/ modPanics(s) THEN Panic(s)
  ELSE LET e == mod(s, s.end + 1)
       IN  [s EXCEPT !.length = @ + 1, !.end = e, !.lines[e] = line]

\* Push as it would be if a full buffer kept its start.
PushLineKeepStart(s, line) ==
  IF s.panic \/ modPanics(s) THEN Panic(s)
  ELSE LET e == mod(s, s.end + 1)
       IN  [s EXCEPT !.length = IF Full(s) THEN @ ELSE @ + 1, !.end = e, !.lines[e] = line]

\* Push as it would be if it wrote at end before moving it.
PushLineWriteFirst(s, line) ==
  IF s.panic \/ modPanics(s) THEN Panic(s)
  ELSE LET s1 == IF Full(s) THEN [s EXCEPT !.start = mod(s, s.start + 1)]
                 ELSE [s EXCEPT !.length = @ + 1]
       IN  [s1 EXCEPT !.lines[s1.end] = line, !.end = mod(s1, s1.end + 1)]

\* Push as it would be if a full buffer moved its start two slots on.
PushLineSkipStart(s, line) ==
  IF s.panic \/ modPanics(s) THEN Panic(s)
  ELSE LET s1 == IF Full(s) THEN [s EXCEPT !.start = mod(s, mod(s, s.start + 1) + 1)]
                 ELSE [s EXCEPT !.length = @ + 1]
           e  == mod(s1, s1.end + 1)
       IN  [s1 EXCEPT !.end = e, !.lines[e] = line]

\* One round of the loop of Push.
PushLine(s, line) ==
  IF s.panic THEN s
  ELSE LET s1 == IF Full(s)
                 THEN IF modPanics(s) THEN Panic(s)
                      ELSE [s EXCEPT !.start = mod(s, s.start + 1)]
                 ELSE [s EXCEPT !.length = @ + 1]
       IN  IF s1.panic \/ modPanics(s1) THEN Panic(s1)
           ELSE LET e == mod(s1, s1.end + 1)
                IN  [s1 EXCEPT !.end = e, !.lines[e] = line]

RECURSIVE Push(_, _)
Push(s, ls) ==
  IF ls = <<>> THEN s ELSE Push(PushLine(s, Head(ls)), Tail(ls))

\* Pop as it would be if it moved end before reading.
PopAfterRetract(s) ==
  IF s.panic \/ Empty(s) THEN [s |-> s, ret |-> ""]
  ELSE IF modPanics(s) THEN [s |-> Panic(s), ret |-> ""]
  ELSE LET e == mod(s, s.end - 1)
       IN  [s   |-> [s EXCEPT !.length = @ - 1, !.end = e, !.lines[e] = ""],
            ret |-> s.lines[e]]

\* Pop and Shift give the buffer after the call and the returned string.
Pop(s) ==
  IF s.panic THEN [s |-> s, ret |-> ""]
  ELSE IF Empty(s) THEN [s |-> s, ret |-> ""]
  ELSE LET s1 == [s EXCEPT !.length = @ - 1]
       IN  IF ~InRange(s1, s1.end) \/ modPanics(s1) THEN [s |-> Panic(s1), ret |-> ""]
           ELSE [s   |-> [s1 EXCEPT !.lines[s1.end] = "", !.end = mod(s1, s1.end - 1)],
                 ret |-> s1.lines[s1.end]]

\* Unshift as it would be if it moved start before writing.
UnshiftLineRetractFirst(s, line) ==
  IF s.panic \/ modPanics(s) THEN Panic(s)
  ELSE LET s1 == IF Full(s) THEN [s EXCEPT !.end = mod(s, s.end - 1)]
                 ELSE [s EXCEPT !.length = @ + 1]
           b  == mod(s1, s1.start - 1)
       IN  [s1 EXCEPT !.start = b, !.lines[b] = line]

\* Unshift as it would be if a full buffer gave up its oldest string, as
\* Push does.
UnshiftLineEvictOldest(s, line) ==
  IF s.panic \/ modPanics(s) THEN Panic(s)
  ELSE LET s1 == IF Full(s) THEN [s EXCEPT !.start = mod(s, s.start + 1)]
                 ELSE [s EXCEPT !.length = @ + 1]
       IN  [s1 EXCEPT !.lines[s1.start] = line, !.start = mod(s1, s1.start - 1)]

\* Unshift as it would be if a full buffer kept its end.
UnshiftLineKeepEnd(s, line) ==
  IF s.panic \/ modPanics(s) THEN Panic(s)
  ELSE LET s1 == IF Full(s) THEN s ELSE [s EXCEPT !.length = @ + 1]
       IN  [s1 EXCEPT !.lines[s1.start] = line, !.start = mod(s1, s1.start - 1)]

\* One round of the loop of Unshift.
UnshiftLine(s, line) ==
  IF s.panic THEN s
  ELSE LET s1 == IF Full(s)
                 THEN IF modPanics(s) THEN Panic(s)
                      ELSE [s EXCEPT !.end = mod(s, s.end - 1)]
                 ELSE [s EXCEPT !.length = @ + 1]
       IN  IF s1.panic \/ ~InRange(s1, s1.start) \/ modPanics(s1) THEN Panic(s1)
           ELSE [s1 EXCEPT !.lines[s1.start] = line, !.start = mod(s1, s1.start - 1)]

\* Unshift as it would be if it took its arguments last to first.
RECURSIVE UnshiftBackwards(_, _)
UnshiftBackwards(s, ls) ==
  IF ls = <<>> THEN s
  ELSE UnshiftBackwards(UnshiftLine(s, ls[Len(ls)]), SubSeq(ls, 1, Len(ls) - 1))

RECURSIVE Unshift(_, _)
Unshift(s, ls) ==
  IF ls = <<>> THEN s ELSE Unshift(UnshiftLine(s, Head(ls)), Tail(ls))

\* Shift as it would be if it read before moving start.
ShiftBeforeAdvance(s) ==
  IF s.panic \/ Empty(s) THEN [s |-> s, ret |-> ""]
  ELSE IF modPanics(s) THEN [s |-> Panic(s), ret |-> ""]
  ELSE [s   |-> [s EXCEPT !.length = @ - 1, !.lines[s.start] = "",
                          !.start = mod(s, s.start + 1)],
        ret |-> s.lines[s.start]]

\* Shift as it would be without the s.Empty() branch.
ShiftUnchecked(s) ==
  IF s.panic \/ modPanics(s) THEN [s |-> Panic(s), ret |-> ""]
  ELSE LET b == mod(s, s.start + 1)
       IN  [s   |-> [s EXCEPT !.length = @ - 1, !.start = b, !.lines[b] = ""],
            ret |-> s.lines[b]]

\* Shift as it would be if it left the string in its slot.
ShiftNoClear(s) ==
  IF s.panic \/ Empty(s) THEN [s |-> s, ret |-> ""]
  ELSE IF modPanics(s) THEN [s |-> Panic(s), ret |-> ""]
  ELSE LET b == mod(s, s.start + 1)
       IN  [s   |-> [s EXCEPT !.length = @ - 1, !.start = b],
            ret |-> s.lines[b]]

Shift(s) ==
  IF s.panic THEN [s |-> s, ret |-> ""]
  ELSE IF Empty(s) THEN [s |-> s, ret |-> ""]
  ELSE LET s1 == [s EXCEPT !.length = @ - 1]
       IN  IF modPanics(s1) THEN [s |-> Panic(s1), ret |-> ""]
           ELSE LET b == mod(s1, s1.start + 1)
                IN  [s   |-> [s1 EXCEPT !.start = b, !.lines[b] = ""],
                     ret |-> s1.lines[b]]

\* fmt's %s of a []string: the strings, a blank between two of them.
RECURSIVE Join(_)
Join(q) ==
  IF q = <<>> THEN ""
  ELSE IF Len(q) = 1 THEN q[1]
  ELSE q[1] \o " " \o Join(Tail(q))

\* The backing storage as the sequence lines[0], lines[1], ...
LinesSeq(s) == [i \in 1 .. Capacity(s) |-> s.lines[i - 1]]

String(s) ==
  "StRingBuffer{start: " \o ToString(s.start) \o ", end: " \o ToString(s.end)
    \o ", lines: [" \o Join(LinesSeq(s)) \o "], length: " \o ToString(s.length) \o "}"

\* The buffer of TestInfo: five strings pushed onto a new buffer of size 5.
TestInfo == Push(NewStRingBuffer(5), <<"1", "2", "3", "4", "5">>)

ToUpper(x) ==
  CASE x = "a" -> "A"
    [] x = "b" -> "B"
    [] OTHER   -> x

\* The functions a caller hands to Map and MapR, by name.  "mkId" is the
\* wrapper Each and EachR build around their observer: it returns its argument.
Apply(f, x) ==
  CASE f = "id"   -> x
    [] f = "upper" -> ToUpper(x)
    [] f = "mkId" -> x

mkId == "mkId"

\* Map and MapR give the buffer after the call and, in seen, the arguments
\* f was called with, in call order.
RECURSIVE MapLoop(_, _, _, _, _)
MapLoop(s, f, i, l, seen) ==
  IF i >= l THEN [s |-> s, seen |-> seen]
  ELSE LET r == Shift(s)
       IN  MapLoop(Push(r.s, <<Apply(f, r.ret)>>), f, i + 1, l, Append(seen, r.ret))

\* Map as it would be if its loop started at 1.
MapFromOne(s, f) == MapLoop(s, f, 1, Length(s), <<>>)

Map(s, f) == MapLoop(s, f, 0, Length(s), <<>>)

RECURSIVE MapRLoop(_, _, _, _, _)
MapRLoop(s, f, i, l, seen) ==
  IF i >= l THEN [s |-> s, seen |-> seen]
  ELSE LET r == Pop(s)
       IN  MapRLoop(Unshift(r.s, <<Apply(f, r.ret)>>), f, i + 1, l, Append(seen, r.ret))

\* MapR as it would be if its loop started at 1.
MapRFromOne(s, f) == MapRLoop(s, f, 1, Length(s), <<>>)

MapR(s, f) == MapRLoop(s, f, 0, Length(s), <<>>)

Each(s) == Map(s, mkId)

EachR(s) == MapR(s, mkId)

\* ------------------------------------------------------------ the callers
\* last: the call made last, the number of strings and the function handed
\* to it, the string it returned and the arguments the function was called
\* with.
NoCall ==
  [op |-> "New", n |-> 0, f |-> "", ret |-> "", seen |-> <<>>]

Called(name, n, f, r, seen) ==
  last' = [op |-> name, n |-> n, f |-> f, ret |-> r, seen |-> seen]

\* sc: the running "insert, then take" sequence of TestAddTake: the inserting
\* call, its arguments, the Length() before it, the taking call repeated since
\* and what its calls returned, in order.
NoScenario ==
  [ins |-> "none", args |-> <<>>, preLen |-> 0, drain |-> "none", rets |-> <<>>]

Inserted(name, ls) ==
  [ins |-> name, args |-> ls, preLen |-> length, drain |-> "none", rets |-> <<>>]

\* The sequence goes on while the same taking call is repeated, for at most
\* as many calls as values were inserted.
Drained(name, r) ==
  IF sc.ins # "none" /\ sc.drain \in {"none", name} /\ Len(sc.rets) < Len(sc.args)
  THEN [sc EXCEPT !.drain = name, !.rets = Append(@, r)]
  ELSE NoScenario

Store(s) ==
  /\ start' = s.start
  /\ end' = s.end
  /\ lines' = s.lines
  /\ length' = s.length
  /\ panicked' = s.panic

\* A panic ends the program: no call follows it.
Running == ~panicked

\* The local variables of TestMapEach: the counter c, the string sum and, for
\* the record, the methods called so far.
NoLocals == [c |-> 0, sum |-> "", calls |-> <<>>]

\* The closure f of TestMapEach: c++; return s + strconv.Itoa(c).
Counting(x, env) ==
  [ret |-> x \o ToString(env.c + 1), env |-> [env EXCEPT !.c = @ + 1]]

\* The closure g of TestMapEach: sum += s.
Gather(x, env) == [env EXCEPT !.sum = @ \o x]

\* A call of a closure by its name: it gives the returned string and the
\* captured variables after the call.  "mkId(g)" is what mkId makes of g.
CallClosure(f, x, env) ==
  CASE f = "f"       -> Counting(x, env)
    [] f = "mkId(g)" -> [ret |-> x, env |-> Gather(x, env)]

\* Map with a closure: the loop of Map, the captured variables handed from
\* call to call.
RECURSIVE MapEnvLoop(_, _, _, _, _)
MapEnvLoop(s, f, env, i, l) ==
  IF i >= l THEN [s |-> s, env |-> env]
  ELSE LET r == Shift(s)
           c == CallClosure(f, r.ret, env)
       IN  MapEnvLoop(Push(r.s, <<c.ret>>), f, c.env, i + 1, l)

MapEnv(s, f, env) == MapEnvLoop(s, f, env, 0, Length(s))

\* MapR as it would be if it went from start to finish as Map does.
MapREnvForward(s, f, env) == MapEnv(s, f, env)

RECURSIVE MapREnvLoop(_, _, _, _, _)
MapREnvLoop(s, f, env, i, l) ==
  IF i >= l THEN [s |-> s, env |-> env]
  ELSE LET r == Pop(s)
           c == CallClosure(f, r.ret, env)
       IN  MapREnvLoop(Unshift(r.s, <<c.ret>>), f, c.env, i + 1, l)

MapREnv(s, f, env) == MapREnvLoop(s, f, env, 0, Length(s))

EachEnv(s, env) == MapEnv(s, "mkId(g)", env)

EachREnv(s, env) == MapREnv(s, "mkId(g)", env)

\* The placeholder strings TestMapEach pushes.
Dots(n) == [i \in 1 .. n |-> "."]

\* Most calls of Map, MapR, Each and EachR in one run of the scenario.
MaxCalls == 4

Init ==
  /\ \E size \in 0 .. MaxCap :
       LET s == NewStRingBuffer(size)
       IN  /\ start = s.start
           /\ end = s.end
           /\ lines = s.lines
           /\ length = s.length
           /\ panicked = s.panic
  /\ last = NoCall
  /\ sc = NoScenario
  /\ locals = NoLocals

\* ---- arbitrary call sequences
\* srb.Push(ls...)
DoPush ==
  /\ Running
  /\ \E ls \in Args(Capacity(Self) + 1) :
       Store(Push(Self, ls)) /\ Called("Push", Len(ls), "", "", <<>>)
  /\ UNCHANGED <<sc, locals>>

\* srb.Pop()
DoPop ==
  /\ Running
  /\ LET r == Pop(Self)
     IN  Store(r.s) /\ Called("Pop", 0, "", r.ret, <<>>)
  /\ UNCHANGED <<sc, locals>>

\* srb.Unshift(ls...)
DoUnshift ==
  /\ Running
  /\ \E ls \in Args(Capacity(Self) + 1) :
       Store(Unshift(Self, ls)) /\ Called("Unshift", Len(ls), "", "", <<>>)
  /\ UNCHANGED <<sc, locals>>

\* srb.Shift()
DoShift ==
  /\ Running
  /\ LET r == Shift(Self)
     IN  Store(r.s) /\ Called("Shift", 0, "", r.ret, <<>>)
  /\ UNCHANGED <<sc, locals>>

\* srb.Map(f)
DoMap ==
  /\ Running
  /\ \E f \in Funcs :
       LET r == Map(Self, f)
       IN  Store(r.s) /\ Called("Map", 0, f, "", r.seen)
  /\ UNCHANGED <<sc, locals>>

\* srb.MapR(f)
DoMapR ==
  /\ Running
  /\ \E f \in Funcs :
       LET r == MapR(Self, f)
       IN  Store(r.s) /\ Called("MapR", 0, f, "", r.seen)
  /\ UNCHANGED <<sc, locals>>

\* srb.Each(g)
DoEach ==
  /\ Running
  /\ LET r == Each(Self)
     IN  Store(r.s) /\ Called("Each", 0, mkId, "", r.seen)
  /\ UNCHANGED <<sc, locals>>

\* srb.EachR(g)
DoEachR ==
  /\ Running
  /\ LET r == EachR(Self)
     IN  Store(r.s) /\ Called("EachR", 0, mkId, "", r.seen)
  /\ UNCHANGED <<sc, locals>>

Next ==
  \/ DoPush
  \/ DoPop
  \/ DoUnshift
  \/ DoShift
  \/ DoMap
  \/ DoMapR
  \/ DoEach
  \/ DoEachR

Spec == Init /\ [][Next]_vars

\* ---- the call sequences of TestAddTake: insert, then take
AddPush ==
  /\ Running
  /\ \E ls \in Args(Capacity(Self) + 1) :
       Store(Push(Self, ls)) /\ sc' = Inserted("Push", ls)
  /\ UNCHANGED <<last, locals>>

AddUnshift ==
  /\ Running
  /\ \E ls \in Args(Capacity(Self) + 1) :
       Store(Unshift(Self, ls)) /\ sc' = Inserted("Unshift", ls)
  /\ UNCHANGED <<last, locals>>

TakePop ==
  /\ Running
  /\ LET r == Pop(Self)
     IN  Store(r.s) /\ sc' = Drained("Pop", r.ret)
  /\ UNCHANGED <<last, locals>>

TakeShift ==
  /\ Running
  /\ LET r == Shift(Self)
     IN  Store(r.s) /\ sc' = Drained("Shift", r.ret)
  /\ UNCHANGED <<last, locals>>

NextAddTake ==
  \/ AddPush
  \/ AddUnshift
  \/ TakePop
  \/ TakeShift

SpecAddTake == Init /\ [][NextAddTake]_vars

\* ------------------------------------------------------------- the claims
Range(q) == {q[i] : i \in DOMAIN q}

Reverse(q) == [i \in 1 .. Len(q) |-> q[Len(q) + 1 - i]]

\* The first k elements of q (all of q when it is shorter).
Prefix(q, k) == SubSeq(q, 1, IF k < Len(q) THEN k ELSE Len(q))

MapSeq(f, q) == [i \in 1 .. Len(q) |-> Apply(f, q[i])]

\* What "for !srb.Empty() { s += srb.Shift() }" collects: the live strings,
\* front to back.
RECURSIVE ShiftAll(_)
ShiftAll(s) ==
  IF Empty(s) \/ s.panic THEN <<>>
  ELSE LET r == Shift(s) IN <<r.ret>> \o ShiftAll(r.s)

\* --------------------------- the revision with Slice (src/unnamed/part_002)
\* In this revision start is the slot of the oldest string and end the slot
\* after the newest: Push writes and then moves end, Shift reads and then
\* moves start, Unshift and Pop move first.
PushLine2(s, line) ==
  IF s.panic THEN s
  ELSE LET s1 == IF Full(s)
                 THEN IF modPanics(s) THEN Panic(s)
                      ELSE [s EXCEPT !.start = mod(s, s.start + 1)]
                 ELSE [s EXCEPT !.length = @ + 1]
       IN  IF s1.panic \/ ~InRange(s1, s1.end) \/ modPanics(s1) THEN Panic(s1)
           ELSE [s1 EXCEPT !.lines[s1.end] = line, !.end = mod(s1, s1.end + 1)]

RECURSIVE Push2(_, _)
Push2(s, ls) ==
  IF ls = <<>> THEN s ELSE Push2(PushLine2(s, Head(ls)), Tail(ls))

Pop2(s) ==
  IF s.panic THEN [s |-> s, ret |-> ""]
  ELSE IF Empty(s) THEN [s |-> s, ret |-> ""]
  ELSE LET s1 == [s EXCEPT !.length = @ - 1]
       IN  IF modPanics(s1) THEN [s |-> Panic(s1), ret |-> ""]
           ELSE LET e == mod(s1, s1.end - 1)
                IN  [s   |-> [s1 EXCEPT !.end = e, !.lines[e] = ""],
                     ret |-> s1.lines[e]]

UnshiftLine2(s, line) ==
  IF s.panic THEN s
  ELSE LET s1 == IF Full(s)
                 THEN IF modPanics(s) THEN Panic(s)
                      ELSE [s EXCEPT !.end = mod(s, s.end - 1)]
                 ELSE [s EXCEPT !.length = @ + 1]
       IN  IF s1.panic \/ modPanics(s1) THEN Panic(s1)
           ELSE LET b == mod(s1, s1.start - 1)
                IN  [s1 EXCEPT !.start = b, !.lines[b] = line]

RECURSIVE Unshift2(_, _)
Unshift2(s, ls) ==
  IF ls = <<>> THEN s ELSE Unshift2(UnshiftLine2(s, Head(ls)), Tail(ls))

Shift2(s) ==
  IF s.panic THEN [s |-> s, ret |-> ""]
  ELSE IF Empty(s) THEN [s |-> s, ret |-> ""]
  ELSE LET s1 == [s EXCEPT !.length = @ - 1]
       IN  IF ~InRange(s1, s1.start) \/ modPanics(s1) THEN [s |-> Panic(s1), ret |-> ""]
           ELSE [s   |-> [s1 EXCEPT !.lines[s1.start] = "", !.start = mod(s1, s1.start + 1)],
                 ret |-> s1.lines[s1.start]]

\* The slice expression s.lines[lo:hi]: a runtime panic unless
\* 0 <= lo <= hi <= cap(s.lines).
SubOk(s, lo, hi) == 0 <= lo /\ lo <= hi /\ hi <= Capacity(s)

Sub(s, lo, hi) == [i \in 1 .. hi - lo |-> s.lines[lo + i - 1]]

\* Go's copy(dst, src): as many elements as the shorter of the two has.
Copy(dst, src) == [i \in 1 .. Len(dst) |-> IF i <= Len(src) THEN src[i] ELSE dst[i]]

\* make([]string, n)
Make(n) == [i \in 1 .. n |-> ""]

\* Slice as it would be if it copied from slot 0 on, whatever start is.
SliceFromZero(s) ==
  [slice |-> Copy(Make(Length(s)), LinesSeq(s)), panic |-> FALSE]

\* Slice gives the returned sequence, or a panic.
Slice(s) ==
  LET slice == Make(Length(s))
  IN  IF Empty(s) THEN [slice |-> slice, panic |-> FALSE]
      ELSE IF s.start < s.end
      THEN LET e == s.end + 1
           IN  IF ~SubOk(s, s.start, e) THEN [slice |-> <<>>, panic |-> TRUE]
               ELSE [slice |-> Copy(slice, Sub(s, s.start, e)), panic |-> FALSE]
      ELSE IF ~SubOk(s, s.start, Capacity(s)) \/ ~SubOk(s, 0, s.end)
      THEN [slice |-> <<>>, panic |-> TRUE]
      ELSE LET part1 == Sub(s, s.start, Capacity(s))
               part2 == Sub(s, 0, s.end)
               n1    == Len(part1)
           IN  IF n1 > Len(slice) THEN [slice |-> <<>>, panic |-> TRUE]
               ELSE LET first == Copy(slice, part1)
                        rest  == Copy(SubSeq(first, n1 + 1, Len(first)), part2)
                    IN  [slice |-> SubSeq(first, 1, n1) \o rest, panic |-> FALSE]

\* The buffer whose storage is the sequence xs.
Storage(xs) == [i \in 0 .. Len(xs) - 1 |-> xs[i + 1]]

Unslice(xs) ==
  LET srb == [start |-> 0, end |-> 0, lines |-> Storage(xs), length |-> Len(xs),
              panic |-> FALSE]
  IN  IF modPanics(srb) THEN Panic(srb)
      ELSE [srb EXCEPT !.end = mod(srb, srb.length)]

\* A []string a caller holds: either it is backed by the storage of the
\* buffer (shared), and then reads as that storage does, or it has an array of
\* its own (data).  made tells that the caller holds one at all.
NoSlice == [made |-> FALSE, shared |-> FALSE, data |-> <<>>]

\* What make and copy give: an array of its own.
OwnArray(q) == [made |-> TRUE, shared |-> FALSE, data |-> q]

\* The slice header that Unslice stores in srb.lines: the caller's array.
SameArray == [made |-> TRUE, shared |-> TRUE, data |-> <<>>]

\* What the caller reads in a slice it holds.
View(v) == IF v.shared THEN LinesSeq(Self) ELSE v.data

\* Unslice as it would be if it copied its argument.
UnsliceHeaderCopying(xs) == OwnArray(xs)

\* The caller's xs after Unslice(xs).
UnsliceHeader(xs) == SameArray

\* The caller's variables in the runs with Slice and Unslice: xs, the
\* sequence last handed to Unslice, and got, the sequence last returned by
\* Slice.
NoSlices == [xs |-> NoSlice, got |-> NoSlice]

\* A slice the caller holds on, when the buffer it may share its array with
\* is replaced by another: it keeps what it reads.
Detached(v) == IF v.shared THEN OwnArray(View(v)) ELSE v

\* The sequences handed to Unslice.
UnsliceArgs == {xs \in AllArgs : Len(xs) <= MaxCap}

\* A call with a sequence for argument: seen holds that sequence.
CalledWith(name, xs, r) ==
  last' = [op |-> name, n |-> Len(xs), f |-> "", ret |-> r, seen |-> xs]

\* The argument lists of Push and Unshift in these runs: none, one or two
\* strings.
FewArgs == Args(2)

InitSlice ==
  /\ \E size \in 0 .. MaxCap :
       /\ start = NewStRingBuffer(size).start
       /\ end = NewStRingBuffer(size).end
       /\ lines = NewStRingBuffer(size).lines
       /\ length = NewStRingBuffer(size).length
       /\ panicked = NewStRingBuffer(size).panic
  /\ last = NoCall
  /\ sc = NoScenario
  /\ locals = NoSlices

SlPush ==
  /\ Running
  /\ \E ls \in FewArgs :
       Store(Push2(Self, ls)) /\ Called("Push", Len(ls), "", "", <<>>)
  /\ UNCHANGED <<sc, locals>>

SlPop ==
  /\ Running
  /\ Store(Pop2(Self).s)
  /\ Called("Pop", 0, "", Pop2(Self).ret, <<>>)
  /\ UNCHANGED <<sc, locals>>

SlUnshift ==
  /\ Running
  /\ \E ls \in FewArgs :
       Store(Unshift2(Self, ls)) /\ Called("Unshift", Len(ls), "", "", <<>>)
  /\ UNCHANGED <<sc, locals>>

SlShift ==
  /\ Running
  /\ Store(Shift2(Self).s)
  /\ Called("Shift", 0, "", Shift2(Self).ret, <<>>)
  /\ UNCHANGED <<sc, locals>>

\* got := b.Slice()
DoSlice ==
  /\ Running
  /\ LET r == Slice(Self)
     IN  /\ Store([Self EXCEPT !.panic = r.panic])
         /\ locals' = [locals EXCEPT !.got = IF r.panic THEN NoSlice ELSE OwnArray(r.slice)]
  /\ Called("Slice", 0, "", "", <<>>)
  /\ UNCHANGED sc

\* b = Unslice(xs)
DoUnslice ==
  /\ Running
  /\ \E xs \in UnsliceArgs :
       /\ Store(Unslice(xs))
       /\ locals' = [xs |-> UnsliceHeader(xs), got |-> Detached(locals.got)]
       /\ CalledWith("Unslice", xs, "")
  /\ UNCHANGED sc

\* xs := b.Slice(); b = Unslice(xs)
DoRoundTrip ==
  /\ Running
  /\ LET r == Slice(Self)
     IN  /\ Store(IF r.panic THEN Panic(Self) ELSE Unslice(r.slice))
         /\ locals' = [xs  |-> IF r.panic THEN NoSlice ELSE UnsliceHeader(r.slice),
                       got |-> Detached(locals.got)]
         /\ CalledWith("RoundTrip", IF r.panic THEN <<>> ELSE r.slice, "")
  /\ UNCHANGED sc

NextSlice ==
  \/ SlPush
  \/ SlPop
  \/ SlUnshift
  \/ SlShift
  \/ DoSlice
  \/ DoUnslice
  \/ DoRoundTrip

SpecSlice == InitSlice /\ [][NextSlice]_vars

\* ------------------------------------------- the scenario of TestMapEach
\* Placeholders are pushed; then Map(f), MapR(f), Each(g) and EachR(g) are
\* called in any order.
Returned(name, r) ==
  /\ Store(r.s)
  /\ locals' = [r.env EXCEPT !.calls = Append(@, name)]
  /\ UNCHANGED <<last, sc>>

PushDots ==
  /\ Running
  /\ locals.calls = <<>>
  /\ \E n \in 1 .. Capacity(Self) + 1 : Store(Push(Self, Dots(n)))
  /\ UNCHANGED <<last, sc, locals>>

MayCall == Running /\ Len(locals.calls) < MaxCalls

CallMap == MayCall /\ Returned("Map", MapEnv(Self, "f", locals))

CallMapR == MayCall /\ Returned("MapR", MapREnv(Self, "f", locals))

CallEach == MayCall /\ Returned("Each", EachEnv(Self, locals))

CallEachR == MayCall /\ Returned("EachR", EachREnv(Self, locals))

NextMapEach ==
  \/ PushDots
  \/ CallMap
  \/ CallMapR
  \/ CallEach
  \/ CallEachR

SpecMapEach == Init /\ [][NextMapEach]_vars

Buffer == <<start, end, lines, length, panicked>>

\* C1: a buffer made with a capacity of at least 1 never holds fewer than 0
\* or more than Capacity() strings, whatever calls are made on it.
C1_LengthWithinCapacity ==
  Capacity(Self) >= 1 => 0 <= Length(Self) /\ Length(Self) <= Capacity(Self)

\* A full buffer of capacity 3 that has wrapped around, after an Unshift.
C1_Witness ==
  /\ Capacity(Self) = 3
  /\ Full(Self)
  /\ start # 0
  /\ last.op = "Unshift"

\* C2: Push(v1..vn) with n <= c on a buffer in any state, followed by Pop
\* calls, returns vn, v(n-1), ..., v1 in that order; pushed on an empty
\* buffer, the Length() left after k Pops is n - k.
C2_PushPopInverse ==
  (/\ sc.ins = "Push"
   /\ sc.drain = "Pop"
   /\ Capacity(Self) >= 1
   /\ Len(sc.args) <= Capacity(Self))
  => /\ ~panicked
     /\ sc.rets = Prefix(Reverse(sc.args), Len(sc.rets))
     /\ sc.preLen = 0 => length = Len(sc.args) - Len(sc.rets)

\* Three strings, the first and last different, pushed onto a buffer that
\* was not empty and popped again.
C2_Witness ==
  /\ sc.ins = "Push"
  /\ sc.drain = "Pop"
  /\ sc.preLen > 0
  /\ Len(sc.args) = 3
  /\ sc.args[1] # sc.args[3]
  /\ sc.rets = Reverse(sc.args)

\* C3: Push(v1..v(c+1)) on an empty buffer of capacity c >= 1 leaves
\* Length() = c; the Shift calls that follow return v2, ..., v(c+1) in that
\* order and then ""; and a v1 different from the other arguments is nowhere
\* in the storage and is returned by none of the Shift or Pop calls.
C3_Eviction ==
  (/\ sc.ins = "Push"
   /\ sc.preLen = 0
   /\ Capacity(Self) >= 1
   /\ Len(sc.args) = Capacity(Self) + 1)
  => /\ ~panicked
     /\ sc.drain = "none" => length = Capacity(Self)
     /\ sc.drain = "Shift" => sc.rets = Prefix(Tail(sc.args) \o <<"">>, Len(sc.rets))
     /\ sc.args[1] \notin Range(Tail(sc.args))
          => sc.args[1] \notin Range(lines) \cup Range(sc.rets)

\* Four strings, the first unlike the others, pushed onto an empty buffer of
\* capacity 3 whose cursors were not at 0, and three Shift calls made.
C3_Witness ==
  /\ sc.ins = "Push"
  /\ sc.preLen = 0
  /\ Capacity(Self) = 3
  /\ start = 0
  /\ Len(sc.args) = 4
  /\ sc.args[1] \notin Range(Tail(sc.args))
  /\ sc.drain = "Shift"
  /\ sc.rets = Tail(sc.args)

\* C4: Push(v1..vn) with n <= c on an empty buffer, followed by Shift calls,
\* returns v1, v2, ..., vn in that order.
C4_PushShiftFifo ==
  (/\ sc.ins = "Push"
   /\ sc.drain = "Shift"
   /\ sc.preLen = 0
   /\ Capacity(Self) >= 1
   /\ Len(sc.args) <= Capacity(Self))
  => /\ ~panicked
     /\ sc.rets = Prefix(sc.args, Len(sc.rets))

\* Three strings, the first and last different, pushed onto an empty buffer
\* and shifted out again.
C4_Witness ==
  /\ sc.ins = "Push"
  /\ sc.drain = "Shift"
  /\ sc.preLen = 0
  /\ Len(sc.args) = 3
  /\ sc.args[1] # sc.args[3]
  /\ sc.rets = sc.args

\* C5, as stated: Unshift(v1..vn) with n <= c on an empty buffer, followed
\* by n Shift calls, returns v1, v2, ..., vn in that order.
C5_Original ==
  (/\ sc.ins = "Unshift"
   /\ sc.drain = "Shift"
   /\ sc.preLen = 0
   /\ Capacity(Self) >= 1
   /\ Len(sc.args) <= Capacity(Self)
   /\ Len(sc.rets) = Len(sc.args))
  => sc.rets = sc.args

\* C5, amended: Unshift(v1..vn) with n <= c on an empty buffer, followed by
\* Shift calls, returns vn, v(n-1), ..., v1 in that order: the last argument
\* is the front of the buffer.
C5_UnshiftShiftInverse ==
  (/\ sc.ins = "Unshift"
   /\ sc.drain = "Shift"
   /\ sc.preLen = 0
   /\ Capacity(Self) >= 1
   /\ Len(sc.args) <= Capacity(Self))
  => /\ ~panicked
     /\ sc.rets = Prefix(Reverse(sc.args), Len(sc.rets))

\* Three strings, the first and last different, unshifted onto an empty
\* buffer and shifted out again.
C5_Witness ==
  /\ sc.ins = "Unshift"
  /\ sc.drain = "Shift"
  /\ sc.preLen = 0
  /\ Len(sc.args) = 3
  /\ sc.args[1] # sc.args[3]
  /\ sc.rets = Reverse(sc.args)

\* C6, as stated: Unshift(v1..vn) with n <= c on an empty buffer, followed
\* by n Pop calls, returns vn, v(n-1), ..., v1 in that order.
C6_Original ==
  (/\ sc.ins = "Unshift"
   /\ sc.drain = "Pop"
   /\ sc.preLen = 0
   /\ Capacity(Self) >= 1
   /\ Len(sc.args) <= Capacity(Self)
   /\ Len(sc.rets) = Len(sc.args))
  => sc.rets = Reverse(sc.args)

\* C6, amended: Unshift(v1..vn) with n <= c on an empty buffer, followed by
\* Pop calls, returns v1, v2, ..., vn in that order: the first argument is
\* the back of the buffer.
C6_UnshiftPopCross ==
  (/\ sc.ins = "Unshift"
   /\ sc.drain = "Pop"
   /\ sc.preLen = 0
   /\ Capacity(Self) >= 1
   /\ Len(sc.args) <= Capacity(Self))
  => /\ ~panicked
     /\ sc.rets = Prefix(sc.args, Len(sc.rets))

\* Three strings, the first and last different, unshifted onto an empty
\* buffer and popped again.
C6_Witness ==
  /\ sc.ins = "Unshift"
  /\ sc.drain = "Pop"
  /\ sc.preLen = 0
  /\ Len(sc.args) = 3
  /\ sc.args[1] # sc.args[3]
  /\ sc.rets = sc.args

\* An Unshift of one string on a full buffer: Length() stays, the string is
\* the new front and the c-1 oldest strings follow it in their order (the
\* newest is given up).
UnshiftOnFull ==
  (/\ sc'.ins = "Unshift"
   /\ sc'.drain = "none"
   /\ Len(sc'.args) = 1
   /\ Capacity(Self) >= 1
   /\ Full(Self))
  => /\ ~panicked'
     /\ length' = length
     /\ ShiftAll(Self') = sc'.args \o Prefix(ShiftAll(Self), Capacity(Self) - 1)

\* An Unshift of c+1 strings on an empty buffer: Length() is c and the Shift
\* calls return v(c+1), vc, ..., v2 and then "".
UnshiftOneTooMany ==
  (/\ sc.ins = "Unshift"
   /\ sc.preLen = 0
   /\ Capacity(Self) >= 1
   /\ Len(sc.args) = Capacity(Self) + 1)
  => /\ ~panicked
     /\ sc.drain = "none" => length = Capacity(Self)
     /\ sc.drain = "Shift"
          => sc.rets = Prefix(Reverse(Tail(sc.args)) \o <<"">>, Len(sc.rets))

\* C7: Unshift(v) on a full buffer (c >= 1) gives up the newest string, not
\* the oldest: Length() stays c, v is the front and the c-1 older strings
\* keep their order behind it; so Unshift of c+1 strings onto an empty
\* buffer keeps the last c arguments, the last argument frontmost.
C7_UnshiftEvictsNewest ==
  [][UnshiftOnFull /\ UnshiftOneTooMany']_vars

\* One string unshifted onto a full buffer of capacity 3 and three Shift
\* calls made, the first returning that string and the others two different
\* strings.
C7_Witness ==
  /\ sc.ins = "Unshift"
  /\ sc.preLen = 3
  /\ Capacity(Self) = 3
  /\ Len(sc.args) = 1
  /\ sc.drain = "Shift"
  /\ Len(sc.rets) = 1
  /\ sc.rets = sc.args
  /\ LET rest == ShiftAll(Self) IN Len(rest) = 2 /\ rest[1] # rest[2]

\* C8: Pop() and Shift() on an empty buffer, wherever its cursors are,
\* return "" and change neither start, end, the storage nor the length.
C8_EmptyTake ==
  [][(Empty(Self) /\ last'.op \in {"Pop", "Shift"})
       => (last'.ret = "" /\ UNCHANGED Buffer)]_vars

\* A Shift that returned "" on an empty buffer whose cursors are not at 0.
C8_Witness ==
  /\ last.op = "Shift"
  /\ last.ret = ""
  /\ Empty(Self)
  /\ Capacity(Self) = 3
  /\ start = 2
  /\ end = 2

\* C9, as stated: on a buffer of capacity 0, Push(v) and Unshift(v) end
\* without a panic and leave Length() = 0.
C9_Original ==
  (/\ Capacity(Self) = 0
   /\ last.op \in {"Push", "Unshift"}
   /\ last.n >= 1)
  => /\ ~panicked
     /\ length = 0

\* C10: Map(f) on a buffer of capacity >= 1 in any state leaves Length() as
\* it is and puts f(x1), ..., f(xn) in the place of the live strings
\* x1, ..., xn, front to back.
C10_MapInPlace ==
  [][(last'.op = "Map" /\ Capacity(Self) >= 1)
       => /\ ~panicked'
          /\ length' = length
          /\ ShiftAll(Self') = MapSeq(last'.f, ShiftAll(Self))]_vars

\* strings.ToUpper mapped over a full, wrapped-around buffer of capacity 3
\* whose first and last strings differ.
C10_Witness ==
  /\ last.op = "Map"
  /\ last.f = "upper"
  /\ Capacity(Self) = 3
  /\ Full(Self)
  /\ start = 0
  /\ Len(last.seen) = 3
  /\ last.seen[1] # last.seen[3]
  /\ last.seen # MapSeq("upper", last.seen)
  /\ ShiftAll(Self) = MapSeq("upper", last.seen)

\* C12: MapR(f) with a pure f, on a buffer of capacity >= 1 in any state,
\* leaves what Map(f) leaves: the same Length() and the same strings
\* f(x1), ..., f(xn) front to back, whatever the cursors are.
C12_MapRLikeMap ==
  [][(last'.op = "MapR" /\ Capacity(Self) >= 1)
       => /\ ~panicked'
          /\ length' = Length(Map(Self, last'.f).s)
          /\ ShiftAll(Self') = ShiftAll(Map(Self, last'.f).s)
          /\ ShiftAll(Self') = MapSeq(last'.f, ShiftAll(Self))]_vars

\* strings.ToUpper mapped in reverse over two different strings in a buffer
\* of capacity 3, which Map would have left at other cursors.
C12_Witness ==
  /\ last.op = "MapR"
  /\ last.f = "upper"
  /\ Capacity(Self) = 3
  /\ length = 2
  /\ Len(last.seen) = 2
  /\ last.seen[1] # last.seen[2]
  /\ last.seen # MapSeq("upper", last.seen)
  /\ ShiftAll(Self) = Reverse(MapSeq("upper", last.seen))
  /\ Map(Self, "id").s.start # MapR(Self, "id").s.start

\* The slot of the i-th live string counted from the front, i in 1 .. Length().
LiveIndex(s, i) == mod(s, s.start + i)

\* The strings in the live slots, front to back.
Live(s) == [i \in 1 .. s.length |-> s.lines[LiveIndex(s, i)]]

\* C16, as the specification states it: with Length() > 0 the live strings
\* are in the slots start, start+1, ..., start+Length()-1 (modulo the
\* capacity), the oldest at index start.
C16_Original ==
  (Capacity(Self) >= 1 /\ length > 0)
    => /\ ShiftAll(Self) = [i \in 1 .. length |-> lines[mod(Self, start + i - 1)]]
       /\ Shift(Self).ret = lines[start]

\* C16: with Length() > 0 the live strings are in the slots start+1, ...,
\* start+Length() (modulo the capacity): the oldest is one slot after start,
\* the newest at index end, and each of them is a string that was put in.
C16_LiveSlots ==
  (Capacity(Self) >= 1 /\ length > 0)
    => /\ ~panicked
       /\ ShiftAll(Self) = Live(Self)
       /\ \A i \in 1 .. length : lines[LiveIndex(Self, i)] # ""
       /\ Shift(Self).ret = lines[mod(Self, start + 1)]
       /\ Pop(Self).ret = lines[end]
       /\ LiveIndex(Self, length) = end

\* Two different strings in a buffer of capacity 3 whose slot start is not
\* live.
C16_Witness ==
  /\ Capacity(Self) = 3
  /\ length = 2
  /\ start = 2
  /\ lines[2] = ""
  /\ lines[0] # ""
  /\ lines[1] # ""
  /\ lines[0] # lines[1]
  /\ last.op \in {"Push", "Unshift", "Map", "MapR"}

\* C17: one Push of exactly c strings v1..vc onto a new buffer of capacity
\* c >= 1 leaves start 0, end 0, length c and the storage [vc, v1, ...,
\* v(c-1)], and String() shows just that; for c = 5 and "1".."5" the storage
\* is [5 1 2 3 4].
C17_PushFills ==
  [][(/\ sc'.ins = "Push"
      /\ sc'.rets = <<>>
      /\ Capacity(Self) >= 1
      /\ Self = NewStRingBuffer(Capacity(Self))
      /\ Len(sc'.args) = Capacity(Self))
       => LET c    == Capacity(Self)
              args == sc'.args
          IN  /\ ~panicked'
              /\ start' = 0
              /\ end' = 0
              /\ length' = c
              /\ lines' = [i \in 0 .. c - 1 |-> IF i = 0 THEN args[c] ELSE args[i]]
              /\ String(Self') = "StRingBuffer{start: 0, end: 0, lines: ["
                                   \o Join(<<args[c]>> \o SubSeq(args, 1, c - 1))
                                   \o "], length: " \o ToString(c) \o "}"
              /\ String(TestInfo)
                   = "StRingBuffer{start: 0, end: 0, lines: [5 1 2 3 4], length: 5}"]_vars

\* Three strings, the last unlike the first, pushed in one call onto the
\* new buffer of capacity 3.
C17_Witness ==
  /\ sc.ins = "Push"
  /\ sc.rets = <<>>
  /\ sc.preLen = 0
  /\ Len(sc.args) = 3
  /\ Capacity(Self) = 3
  /\ sc.args[3] # sc.args[1]
  /\ start = 0
  /\ end = 0
  /\ length = 3
  /\ LinesSeq(Self) = <<sc.args[3], sc.args[1], sc.args[2]>>

\* C18: with a capacity c >= 1, whatever Push, Pop, Unshift, Shift, Map and
\* MapR calls were made, 0 <= start < c, 0 <= end < c and
\* end = (start + length) mod c; so start = end exactly when the buffer is
\* empty or full.
C18_Cursors ==
  Capacity(Self) >= 1
    => /\ ~panicked
       /\ 0 <= start
       /\ start < Capacity(Self)
       /\ 0 <= end
       /\ end < Capacity(Self)
       /\ end = (start + length) % Capacity(Self)
       /\ (start = end) <=> (Empty(Self) \/ Full(Self))

\* A full buffer of capacity 3 after a Map, its cursors together off slot 0.
C18_Witness ==
  /\ Capacity(Self) = 3
  /\ last.op = "Map"
  /\ last.f = "upper"
  /\ Full(Self)
  /\ start = end
  /\ start = 2

\* The slots that hold no live string.
Vacant(s) == DOMAIN s.lines \ {LiveIndex(s, i) : i \in 1 .. s.length}

\* C19: in a buffer made by NewStRingBuffer(c), c >= 1, after any Push, Pop,
\* Unshift and Shift calls every slot that is not one of the Length() live
\* slots holds ""; so on a buffer that is not full Push(v) and then Pop()
\* give back v and leave start, end, storage and length as they were.
C19_VacantSlotsEmpty ==
  Capacity(Self) >= 1
    => /\ \A i \in Vacant(Self) : lines[i] = ""
       /\ ~Full(Self)
            => \A v \in Values :
                 /\ Pop(Push(Self, <<v>>)).s = Self
                 /\ Pop(Push(Self, <<v>>)).ret = v

\* One string pushed onto a buffer of capacity 3 that held one string beside
\* slots vacated earlier, and popped again.
C19_Witness ==
  /\ Capacity(Self) = 3
  /\ sc.ins = "Push"
  /\ Len(sc.args) = 1
  /\ sc.preLen = 1
  /\ sc.drain = "Pop"
  /\ sc.rets = sc.args
  /\ length = 1
  /\ start = 1
  /\ end = 2
  /\ Vacant(Self) = {0, 1}

\* The strings of q written one after the other.
RECURSIVE Concat(_)
Concat(q) == IF q = <<>> THEN "" ELSE Head(q) \o Concat(Tail(q))

\* C11: Map(f) and Each(f) call f once for each live string, from the front
\* to the back, MapR(f) and EachR(f) once for each from the back to the front:
\* the counting closure numbers the strings in that order and the gathering
\* closure sees them in that order.  On the full buffer of capacity 3 holding
\* ".", ".", "." that makes Map, MapR, Each, EachR gather ".16.25.34.34.25.16".
C11_CallOrder ==
  [][(locals'.calls # locals.calls /\ Capacity(Self) >= 1)
       => LET n   == length
              old == ShiftAll(Self)
              new == ShiftAll(Self')
              op  == locals'.calls[Len(locals'.calls)]
          IN  /\ ~panicked'
              /\ length' = n
              /\ op = "Map"
                   => /\ locals'.c = locals.c + n
                      /\ locals'.sum = locals.sum
                      /\ new = [i \in 1 .. n |-> old[i] \o ToString(locals.c + i)]
              /\ op = "MapR"
                   => /\ locals'.c = locals.c + n
                      /\ locals'.sum = locals.sum
                      /\ new = [i \in 1 .. n |-> old[i] \o ToString(locals.c + n + 1 - i)]
              /\ op = "Each"
                   => /\ locals'.c = locals.c
                      /\ new = old
                      /\ locals'.sum = locals.sum \o Concat(old)
              /\ op = "EachR"
                   => /\ locals'.c = locals.c
                      /\ new = old
                      /\ locals'.sum = locals.sum \o Concat(Reverse(old))
              /\ (/\ Capacity(Self) = 3
                  /\ n = 3
                  /\ locals'.calls = <<"Map", "MapR", "Each", "EachR">>)
                   => locals'.sum = ".16.25.34.34.25.16"]_vars

\* The run of TestMapEach, done.
C11_Witness ==
  /\ Capacity(Self) = 3
  /\ length = 3
  /\ locals.calls = <<"Map", "MapR", "Each", "EachR">>
  /\ locals.c = 6
  /\ locals.sum = ".16.25.34.34.25.16"
  /\ ShiftAll(Self) = <<".16", ".25", ".34">>

\* What successive Shift() calls of the revision with Slice return until the
\* buffer is empty.
RECURSIVE ShiftAll2(_)
ShiftAll2(s) ==
  IF s.panic \/ Empty(s) THEN <<>> ELSE <<Shift2(s).ret>> \o ShiftAll2(Shift2(s).s)

\* C13: in the revision with Slice, in every state a buffer of capacity >= 1
\* gets into, Slice() returns Length() strings: the live strings from the
\* front to the back, as successive Shift() calls would return them.
C13_SliceIsContents ==
  Capacity(Self) >= 1
    => /\ ~panicked
       /\ ~Slice(Self).panic
       /\ Len(Slice(Self).slice) = Length(Self)
       /\ Slice(Self).slice = ShiftAll2(Self)
       /\ last.op = "Slice" => View(locals.got) = ShiftAll2(Self)

\* Slice() returned two different strings from a buffer of capacity 3 whose
\* live slots wrap around the end of the storage.
C13_Witness ==
  /\ last.op = "Slice"
  /\ Capacity(Self) = 3
  /\ start = 2
  /\ end = 1
  /\ length = 2
  /\ locals.got.made
  /\ View(locals.got) = <<lines[2], lines[0]>>
  /\ lines[2] # lines[0]
  /\ lines[1] = ""

\* C14, as the specification states it: for every sequence xs, the empty
\* one too, Unslice(xs) returns a full buffer of capacity and length len(xs)
\* whose Shift() is the first and whose Pop() is the last string of xs.
C14_Original ==
  [][last'.op = "Unslice"
       => LET xs == last'.seen
              n  == Len(xs)
          IN  /\ ~panicked'
              /\ Capacity(Self') = n
              /\ length' = n
              /\ Full(Self')
              /\ n > 0 => /\ Shift2(Self').ret = xs[1]
                          /\ Pop2(Self').ret = xs[n]]_vars

\* C15, as the specification states it: for every buffer b, an empty one
\* too, Unslice(b.Slice()) is a full buffer whose Slice() is b.Slice().
C15_Original ==
  [][last'.op = "RoundTrip"
       => /\ ~panicked'
          /\ Full(Self')
          /\ ~Slice(Self').panic
          /\ Slice(Self').slice = Slice(Self).slice]_vars

====
